---- MODULE Spec2Model ----
(***************************************************************************)
(* Model of the checkpoint-backend chat core: the Socket.IO session router *)
(* (app/websocket/manager.py), the conversation registry and the           *)
(* persist-then-score reply pipeline (app/chat/services.py) and the risk   *)
(* aggregation of app/chat/crisis_detector.py.                             *)
(*                                                                         *)
(* Every Socket.IO handler and every REST service call is one atomic       *)
(* action; the background task _process_ai_response is cut at its awaits   *)
(* (the generation backend call, the fan-out, the alert).                  *)
(***************************************************************************)
EXTENDS Integers, Sequences, FiniteSets, TLC

(***************************** bounds *************************************)
MaxSids == 2
MaxConvs == 1
MaxMsgs == 4
MaxRegistryConvs == 2

Sids == 1..MaxSids
ConvIds == 1..MaxConvs
RegistryConvIds == 1..MaxRegistryConvs
RoomIds == 1..(MaxRegistryConvs + 1)
MonitorIds == {"ana", "bia"}

(* A falsy conversation_id / monitor_id / message of the event payload.    *)
NoConv == 0
NoMonitor == ""
NoText == [kws |-> {"<missing>"}, pats |-> {}]

(************************* crisis detector ********************************)
RiskLevels == <<"none", "low", "medium", "high", "critical">>

RiskIndex(l) == CHOOSE i \in 1..Len(RiskLevels) : RiskLevels[i] = l

keywords ==
  [critical |-> {"vou me matar", "vou me suicidar", "quero morrer agora",
                 "tenho uma arma", "vou pular", "vou tomar remedios",
                 "hoje e o ultimo dia", "me despedindo", "acabou para mim"},
   high     |-> {"suicidio", "me matar", "acabar com tudo", "nao aguento mais",
                 "quero morrer", "melhor morto", "sem saida", "sem esperanca",
                 "mundo seria melhor sem mim", "cansei de viver", "vai me matar",
                 "ameaca de morte", "ameacado de morte"},
   medium   |-> {"deprimido", "vazio", "sozinho", "triste demais",
                 "sem sentido", "nao vale a pena", "desisto", "acabou",
                 "ninguem me ama", "sou um fardo"},
   low      |-> {"triste", "down", "mal", "chateado", "preocupado",
                 "ansioso", "estressado", "cansado"}]

KeywordLevels == {"critical", "high", "medium", "low"}

(* A message text is represented by what the detector reads off it: the    *)
(* lexicon keywords that are substrings of the lower-cased text and the    *)
(* critical patterns (numbered 1..6 as in critical_patterns) that match.   *)
TextOla == [kws |-> {}, pats |-> {}]
TextTriste == [kws |-> {"triste"}, pats |-> {}]
(* "Eu quero me matar, nao aguento mais" *)
TextQueroMeMatar == [kws |-> {"me matar", "nao aguento mais"}, pats |-> {}]
(* "vou me matar" *)
TextVouMeMatar == [kws |-> {"vou me matar", "me matar"}, pats |-> {1}]

Texts == {TextOla, TextQueroMeMatar, TextVouMeMatar}

MaxLevel(S) ==
  IF S = {} THEN "none"
  ELSE CHOOSE l \in S : \A m \in S : RiskIndex(m) <= RiskIndex(l)

(* Confidences are kept exact: a sub-confidence is a number of thousandths. *)
Min(a, b) == IF a <= b THEN a ELSE b

(* _analyze_keywords without the comparison of indexes: the level of the   *)
(* last matching keyword in the order of the lexicon, which is the lowest. *)
_analyze_keywords_last_match(text) ==
  LET found_keywords == UNION {keywords[l] \cap text.kws : l \in KeywordLevels}
      matched == {l \in KeywordLevels : keywords[l] \cap text.kws # {}}
  IN [risk_level |-> IF matched = {} THEN "none"
                     ELSE CHOOSE l \in matched :
                            \A m \in matched : RiskIndex(l) <= RiskIndex(m),
      keywords_found |-> found_keywords,
      confidence |-> Min(Cardinality(found_keywords) * 300, 1000)]

_analyze_keywords(text) ==
  LET found_keywords == UNION {keywords[l] \cap text.kws : l \in KeywordLevels}
  IN [risk_level |-> MaxLevel({l \in KeywordLevels : keywords[l] \cap text.kws # {}}),
      keywords_found |-> found_keywords,
      confidence |-> Min(Cardinality(found_keywords) * 300, 1000)]

(* _analyze_patterns that rates a pattern match HIGH.                      *)
_analyze_patterns_high(text) ==
  IF text.pats # {}
    THEN [risk_level |-> "high", patterns_found |-> text.pats, confidence |-> 900]
    ELSE [risk_level |-> "none", patterns_found |-> {}, confidence |-> 0]

_analyze_patterns(text) ==
  IF text.pats # {}
    THEN [risk_level |-> "critical", patterns_found |-> text.pats, confidence |-> 900]
    ELSE [risk_level |-> "none", patterns_found |-> {}, confidence |-> 0]

(* _analyze_with_ai that reads an answer without ':' off the backend and   *)
(* takes the fallback of a text without any stem: NONE with 0.1.           *)
_analyze_with_ai_answered(text) ==
  [risk_level |-> "none", ai_response |-> "ok", confidence |-> 100]

(* _analyze_with_ai whose except branch returns the confidence of the      *)
(* parse fallback, 0.3.                                                    *)
_analyze_with_ai_failure_as_unparsable(text) ==
  [risk_level |-> "none", ai_response |-> "Erro", confidence |-> 300]

(* ollama_client.ask is a coroutine function and is called without await:  *)
(* response is a coroutine object, response.strip() raises AttributeError  *)
(* and the except branch returns NONE with the error text.                 *)
_analyze_with_ai(text) ==
  [risk_level |-> "none", ai_response |-> "Erro", confidence |-> 0]

(* _combine_analyses that takes the level from keywords and patterns only. *)
_combine_analyses_without_judge(keyword_analysis, pattern_analysis, ai_analysis) ==
  LET analyses == <<keyword_analysis, pattern_analysis, ai_analysis>>
      max_risk_level == MaxLevel({analyses[i].risk_level : i \in 1..2})
      sum == analyses[1].confidence + analyses[2].confidence + analyses[3].confidence
      agreeing == Cardinality({i \in 1..3 : analyses[i].risk_level = max_risk_level})
  IN [risk_level |-> max_risk_level,
      confidence |-> IF agreeing >= 2 THEN Min(13 * sum, 30000) ELSE 10 * sum,
      keywords_found |-> keyword_analysis.keywords_found,
      requires_human |-> max_risk_level \in {"high", "critical"},
      emergency_contact |-> max_risk_level = "critical",
      analysis_details |-> [keyword_analysis |-> keyword_analysis,
                            pattern_analysis |-> pattern_analysis,
                            ai_analysis |-> ai_analysis]]

(* _combine_analyses that asks for a human at CRITICAL only.               *)
_combine_analyses_critical_only(keyword_analysis, pattern_analysis, ai_analysis) ==
  LET analyses == <<keyword_analysis, pattern_analysis, ai_analysis>>
      max_risk_level == MaxLevel({analyses[i].risk_level : i \in 1..3})
      sum == analyses[1].confidence + analyses[2].confidence + analyses[3].confidence
      agreeing == Cardinality({i \in 1..3 : analyses[i].risk_level = max_risk_level})
  IN [risk_level |-> max_risk_level,
      confidence |-> IF agreeing >= 2 THEN Min(13 * sum, 30000) ELSE 10 * sum,
      keywords_found |-> keyword_analysis.keywords_found,
      requires_human |-> max_risk_level = "critical",
      emergency_contact |-> max_risk_level = "critical",
      analysis_details |-> [keyword_analysis |-> keyword_analysis,
                            pattern_analysis |-> pattern_analysis,
                            ai_analysis |-> ai_analysis]]

(* _combine_analyses that boosts the confidence only when all three agree. *)
_combine_analyses_unanimous(keyword_analysis, pattern_analysis, ai_analysis) ==
  LET analyses == <<keyword_analysis, pattern_analysis, ai_analysis>>
      max_risk_level == MaxLevel({analyses[i].risk_level : i \in 1..3})
      sum == analyses[1].confidence + analyses[2].confidence + analyses[3].confidence
      agreeing == Cardinality({i \in 1..3 : analyses[i].risk_level = max_risk_level})
  IN [risk_level |-> max_risk_level,
      confidence |-> IF agreeing >= 3 THEN Min(13 * sum, 30000) ELSE 10 * sum,
      keywords_found |-> keyword_analysis.keywords_found,
      requires_human |-> max_risk_level \in {"high", "critical"},
      emergency_contact |-> max_risk_level = "critical",
      analysis_details |-> [keyword_analysis |-> keyword_analysis,
                            pattern_analysis |-> pattern_analysis,
                            ai_analysis |-> ai_analysis]]

(* The combined confidence is a number of 1/30000: the mean of three       *)
(* thousandths is 10 * sum, the mean times 1.3 is 13 * sum, 1.0 is 30000.  *)
_combine_analyses(keyword_analysis, pattern_analysis, ai_analysis) ==
  LET analyses == <<keyword_analysis, pattern_analysis, ai_analysis>>
      max_risk_level == MaxLevel({analyses[i].risk_level : i \in 1..3})
      sum == analyses[1].confidence + analyses[2].confidence + analyses[3].confidence
      agreeing == Cardinality({i \in 1..3 : analyses[i].risk_level = max_risk_level})
  IN [risk_level |-> max_risk_level,
      confidence |-> IF agreeing >= 2 THEN Min(13 * sum, 30000) ELSE 10 * sum,
      keywords_found |-> keyword_analysis.keywords_found,
      requires_human |-> max_risk_level \in {"high", "critical"},
      emergency_contact |-> max_risk_level = "critical",
      analysis_details |-> [keyword_analysis |-> keyword_analysis,
                            pattern_analysis |-> pattern_analysis,
                            ai_analysis |-> ai_analysis]]

analyze_message(text) ==
  _combine_analyses(_analyze_keywords(text), _analyze_patterns(text),
                    _analyze_with_ai(text))

(* Texts for the detector alone: a text is a choice of phrases, and its    *)
(* features are the keywords and the critical patterns its phrases carry.  *)
(* "tenho uma faca" matches critical_patterns[1] and holds no keyword;     *)
(* "vou me matar" matches critical_patterns[0] and holds two keywords.     *)
Phrases == {"vou me matar", "tenho uma faca", "nao aguento mais",
            "sem esperanca", "sozinho", "triste"}

PhraseKeywords(p) ==
  IF p = "vou me matar" THEN {"vou me matar", "me matar"}
  ELSE IF p = "tenho uma faca" THEN {}
  ELSE {p}

PhrasePatterns(p) ==
  IF p = "vou me matar" THEN {1}
  ELSE IF p = "tenho uma faca" THEN {2}
  ELSE {}

TextOf(P) == [kws |-> UNION {PhraseKeywords(p) : p \in P},
              pats |-> UNION {PhrasePatterns(p) : p \in P}]

DetectorTexts == {TextOf(P) : P \in SUBSET Phrases}

(* What _analyze_with_ai returns for an answer of the judge: a parsed      *)
(* LEVEL:CONFIDENCE, the fallback of an unparsable one, the failure.       *)
AiAnalyses ==
  {[risk_level |-> "none", ai_response |-> "NONE:0.1", confidence |-> 100],
   [risk_level |-> "low", ai_response |-> "LOW:0.3", confidence |-> 300],
   [risk_level |-> "medium", ai_response |-> "MEDIUM:0.6", confidence |-> 600],
   [risk_level |-> "high", ai_response |-> "HIGH:0.8", confidence |-> 800],
   [risk_level |-> "critical", ai_response |-> "CRITICAL:0.9", confidence |-> 900],
   [risk_level |-> "none", ai_response |-> "ALTO:x", confidence |-> 300],
   [risk_level |-> "high", ai_response |-> "HIGH:0.7", confidence |-> 700],
   [risk_level |-> "medium", ai_response |-> "MEDIUM:0.5", confidence |-> 500],
   [risk_level |-> "low", ai_response |-> "LOW:0.4", confidence |-> 400],
   [risk_level |-> "none", ai_response |-> "ok", confidence |-> 100],
   [risk_level |-> "none", ai_response |-> "Erro", confidence |-> 0]}

(****************************** state **************************************)
VARIABLES
  conn,                \* sid -> "new" | "connected" | "gone" (transport)
  sio_rooms,           \* Socket.IO room membership: [conv: c -> sids, mon: m -> sids]
  conversation_rooms,  \* dict conversation_id -> set of sids
  monitor_rooms,       \* dict monitor_id -> set of sids
  user_sessions,       \* dict sid -> [type, monitor_id, conversations]
  conversations,       \* table conversations: id -> [mode, status, user_connected]
  messages,            \* table messages, in id order
  tasks,               \* background tasks: user message id -> task record
  out,                 \* what the last step emitted, in order
  emitted,             \* every room broadcast emitted so far
  detection,           \* a call of the crisis detector: its input and its result
  asks                 \* requests of the REST endpoint: request number -> record

vars == <<conn, sio_rooms, conversation_rooms, monitor_rooms, user_sessions,
          conversations, messages, tasks, out, emitted, detection, asks>>

routing == <<sio_rooms, conversation_rooms, monitor_rooms, user_sessions>>
db == <<conversations, messages>>

(****************************** helpers ************************************)
EmptyDict == [k \in {} |-> {}]

DictAdd(d, k, sid) ==
  IF k \in DOMAIN d THEN [d EXCEPT ![k] = @ \cup {sid}] ELSE d @@ (k :> {sid})

(* d[k].discard(sid) without the deletion of a key left empty.             *)
DictDiscard_keeps_key(d, k, sid) ==
  IF k \notin DOMAIN d THEN d ELSE [d EXCEPT ![k] = @ \ {sid}]

(* d[k].discard(sid); if not d[k]: del d[k]   (only when k in d)            *)
DictDiscard(d, k, sid) ==
  IF k \notin DOMAIN d THEN d
  ELSE IF d[k] \ {sid} = {} THEN [x \in DOMAIN d \ {k} |-> d[x]]
  ELSE [d EXCEPT ![k] = @ \ {sid}]

DictDel(d, k) == [x \in DOMAIN d \ {k} |-> d[x]]

Range(s) == {s[i] : i \in 1..Len(s)}

RECURSIVE SetToSeq(_)
SetToSeq(S) ==
  IF S = {} THEN <<>>
  ELSE LET x == CHOOSE y \in S : TRUE IN <<x>> \o SetToSeq(S \ {x})

RECURSIVE Flatten(_)
Flatten(ss) == IF ss = <<>> THEN <<>> ELSE Head(ss) \o Flatten(Tail(ss))

(* Emit targets: room=f"conversation_{id}", room=f"monitor_{id}", to=sid.  *)
ConvRoom(c) == [kind |-> "conversation", conv |-> c, mon |-> "", sid |-> 0]
MonRoom(m) == [kind |-> "monitor", conv |-> 0, mon |-> m, sid |-> 0]
ToSid(s) == [kind |-> "sid", conv |-> 0, mon |-> "", sid |-> s]

Emit(event, to, c, mid, detail) ==
  [event |-> event, to |-> to, conversation_id |-> c, message_id |-> mid,
   detail |-> detail]

Error(sid, text) == <<Emit("error", ToSid(sid), 0, 0, text)>>

(* for monitor_id in self.monitor_rooms: await self.sio.emit(event, room)  *)
ToMonitors(mrooms, event, c, mid, detail) ==
  LET ms == SetToSeq(DOMAIN mrooms)
  IN [i \in 1..Len(ms) |-> Emit(event, MonRoom(ms[i]), c, mid, detail)]

(* The answer of a REST route that raises HTTPException(404).              *)
ToCaller == [kind |-> "http", conv |-> 0, mon |-> "", sid |-> 0]
HttpNotFound(c) == <<Emit("http_404", ToCaller, c, 0, "Conversation not found")>>

Broadcasts(es) ==
  {es[i] : i \in {j \in 1..Len(es) : es[j].to.kind \in {"conversation", "monitor"}}}

(********************* the state after construction ***********************)
NoAnalysis == [risk_level |-> "none", confidence |-> 0]
NoDetection == [pc |-> "idle", text |-> [kws |-> {}, pats |-> {}], answer |-> "",
                ai_analysis |-> NoAnalysis, final |-> NoAnalysis]

InitRouter ==
  /\ conn = [s \in Sids |-> "new"]
  /\ sio_rooms = [conv |-> [c \in RoomIds |-> {}], mon |-> [m \in MonitorIds |-> {}]]
  /\ conversation_rooms = EmptyDict
  /\ monitor_rooms = EmptyDict
  /\ user_sessions = EmptyDict
  /\ conversations = EmptyDict
  /\ messages = <<>>
  /\ tasks = EmptyDict
  /\ out = <<>>
  /\ emitted = {}
  /\ detection = NoDetection
  /\ asks = EmptyDict

(************************ credentials (join_monitor) ***********************)
(* A token as decode_access_token sees it: absent from the payload, not a  *)
(* decodable JWT, a JWT without "sub", or a JWT whose "sub" is a user.     *)
NoToken == [kind |-> "missing", sub |-> ""]
GarbageToken == [kind |-> "garbage", sub |-> ""]
NoSubToken == [kind |-> "jwt", sub |-> ""]
TokenOf(m) == [kind |-> "jwt", sub |-> m]

Tokens == {NoToken, GarbageToken, NoSubToken} \cup {TokenOf(m) : m \in MonitorIds}

(* jose raises JWTError on an undecodable token, else returns the payload. *)
decode_access_token(token) ==
  IF token.kind = "jwt" THEN [raised |-> FALSE, sub |-> token.sub]
  ELSE [raised |-> TRUE, sub |-> ""]

(* authenticate_monitor without the comparison of "sub" with monitor_id.   *)
authenticate_monitor_any_subject(monitor_id, token) ==
  IF monitor_id = NoMonitor THEN "monitor_id required"
  ELSE IF token.kind = "missing" THEN "Authentication required for monitors"
  ELSE LET payload == decode_access_token(token)
       IN IF payload.raised THEN "Invalid or expired authentication token"
          ELSE IF payload.sub = "" THEN "Invalid authentication token"
          ELSE "ok"

(* The outcome of lines 134-170 of join_monitor: "ok" or the error text.   *)
authenticate_monitor(monitor_id, token) ==
  IF monitor_id = NoMonitor THEN "monitor_id required"
  ELSE IF token.kind = "missing" THEN "Authentication required for monitors"
  ELSE LET payload == decode_access_token(token)
       IN IF payload.raised THEN "Invalid or expired authentication token"
          ELSE IF payload.sub = "" THEN "Invalid authentication token"
          ELSE IF payload.sub # monitor_id
            THEN "Monitor ID does not match authenticated user"
          ELSE "ok"

(***************************** session router ******************************)
connect(sid) ==
  /\ conn[sid] = "new"
  /\ conn' = [conn EXCEPT ![sid] = "connected"]
  /\ out' = <<Emit("connected", ToSid(sid), 0, 0, "success")>>
  /\ emitted' = emitted \cup Broadcasts(out')
  /\ UNCHANGED <<routing, db, tasks, detection, asks>>

(* join_conversation that writes a fresh session record on every join.     *)
join_conversation_overwrite(sid, conversation_id, user_type) ==
  /\ conn[sid] = "connected"
  /\ IF conversation_id = NoConv
       THEN /\ out' = Error(sid, "conversation_id required")
            /\ UNCHANGED routing
       ELSE /\ sio_rooms' = [sio_rooms EXCEPT !.conv[conversation_id] = @ \cup {sid}]
            /\ conversation_rooms' = DictAdd(conversation_rooms, conversation_id, sid)
            /\ user_sessions' =
                 [s \in DOMAIN user_sessions \cup {sid} |->
                    IF s = sid
                      THEN [type |-> user_type, monitor_id |-> NoMonitor,
                            conversations |-> <<conversation_id>>]
                      ELSE user_sessions[s]]
            /\ UNCHANGED monitor_rooms
            /\ out' = <<Emit("joined_conversation", ToSid(sid), conversation_id, 0, "")>>
  /\ emitted' = emitted \cup Broadcasts(out')
  /\ UNCHANGED <<conn, db, tasks, detection, asks>>

join_conversation(sid, conversation_id, user_type) ==
  /\ conn[sid] = "connected"
  /\ IF conversation_id = NoConv
       THEN /\ out' = Error(sid, "conversation_id required")
            /\ UNCHANGED routing
       ELSE /\ sio_rooms' = [sio_rooms EXCEPT !.conv[conversation_id] = @ \cup {sid}]
            /\ conversation_rooms' = DictAdd(conversation_rooms, conversation_id, sid)
            /\ user_sessions' =
                 IF sid \in DOMAIN user_sessions
                   THEN [user_sessions EXCEPT ![sid].conversations =
                           IF conversation_id \in Range(@) THEN @
                           ELSE Append(@, conversation_id)]
                   ELSE user_sessions @@
                        (sid :> [type |-> user_type, monitor_id |-> NoMonitor,
                                 conversations |-> <<conversation_id>>])
            /\ UNCHANGED monitor_rooms
            /\ out' = <<Emit("joined_conversation", ToSid(sid), conversation_id, 0, "")>>
  /\ emitted' = emitted \cup Broadcasts(out')
  /\ UNCHANGED <<conn, db, tasks, detection, asks>>

(* join_monitor that writes a fresh session record on every join.          *)
join_monitor_fresh_session(sid, monitor_id, token) ==
  /\ conn[sid] = "connected"
  /\ IF authenticate_monitor(monitor_id, token) # "ok"
       THEN /\ out' = Error(sid, authenticate_monitor(monitor_id, token))
            /\ UNCHANGED routing
       ELSE /\ sio_rooms' = [sio_rooms EXCEPT !.mon[monitor_id] = @ \cup {sid}]
            /\ monitor_rooms' = DictAdd(monitor_rooms, monitor_id, sid)
            /\ user_sessions' =
                 [s \in DOMAIN user_sessions \cup {sid} |->
                    IF s = sid
                      THEN [type |-> "monitor", monitor_id |-> monitor_id,
                            conversations |-> <<>>]
                      ELSE user_sessions[s]]
            /\ UNCHANGED conversation_rooms
            /\ out' = <<Emit("joined_monitor", ToSid(sid), 0, 0, monitor_id)>>
  /\ emitted' = emitted \cup Broadcasts(out')
  /\ UNCHANGED <<conn, db, tasks, detection, asks>>

join_monitor(sid, monitor_id, token) ==
  /\ conn[sid] = "connected"
  /\ IF authenticate_monitor(monitor_id, token) # "ok"
       THEN /\ out' = Error(sid, authenticate_monitor(monitor_id, token))
            /\ UNCHANGED routing
       ELSE /\ sio_rooms' = [sio_rooms EXCEPT !.mon[monitor_id] = @ \cup {sid}]
            /\ monitor_rooms' = DictAdd(monitor_rooms, monitor_id, sid)
            /\ user_sessions' =
                 IF sid \in DOMAIN user_sessions
                   THEN [user_sessions EXCEPT ![sid].type = "monitor",
                                              ![sid].monitor_id = monitor_id]
                   ELSE user_sessions @@
                        (sid :> [type |-> "monitor", monitor_id |-> monitor_id,
                                 conversations |-> <<>>])
            /\ UNCHANGED conversation_rooms
            /\ out' = <<Emit("joined_monitor", ToSid(sid), 0, 0, monitor_id)>>
  /\ emitted' = emitted \cup Broadcasts(out')
  /\ UNCHANGED <<conn, db, tasks, detection, asks>>

leave_conversation(sid, conversation_id) ==
  /\ conn[sid] = "connected"
  /\ conversation_rooms' =
       IF conversation_id # NoConv
         THEN DictDiscard(conversation_rooms, conversation_id, sid)
         ELSE conversation_rooms
  /\ sio_rooms' = IF conversation_id \in RoomIds
                    THEN [sio_rooms EXCEPT !.conv[conversation_id] = @ \ {sid}]
                    ELSE sio_rooms
  /\ out' = <<>>
  /\ UNCHANGED <<conn, monitor_rooms, user_sessions, db, tasks, emitted, detection, asks>>

(* The conversations a disconnect marks: those of a 'user' session.        *)
DisconnectMarks(sid) ==
  IF sid \in DOMAIN user_sessions /\ user_sessions[sid].type = "user"
    THEN user_sessions[sid].conversations
    ELSE <<>>

(* conv.user_connected = False for the conversations of cs that exist.     *)
mark_conversation_disconnected(convs, cs) ==
  [c \in DOMAIN convs |->
     IF c \in Range(cs) THEN [convs[c] EXCEPT !.user_connected = FALSE]
     ELSE convs[c]]

(* ... and user_disconnected to every monitor room, per marked conversation *)
MarkEmits(convs, cs) ==
  Flatten([i \in 1..Len(cs) |->
            IF cs[i] \in DOMAIN convs
              THEN ToMonitors(monitor_rooms, "user_disconnected", cs[i], 0, "")
              ELSE <<>>])

RECURSIVE DiscardAll(_, _, _)
DiscardAll(d, cs, sid) ==
  IF cs = <<>> THEN d
  ELSE DiscardAll(DictDiscard(d, Head(cs), sid), Tail(cs), sid)

cleanup_conversation_rooms(sid) ==
  IF sid \in DOMAIN user_sessions /\ user_sessions[sid].type \in {"user", "monitor"}
    THEN DiscardAll(conversation_rooms, user_sessions[sid].conversations, sid)
    ELSE conversation_rooms

cleanup_monitor_rooms(sid) ==
  IF /\ sid \in DOMAIN user_sessions
     /\ user_sessions[sid].type = "monitor"
     /\ user_sessions[sid].monitor_id # NoMonitor
    THEN DictDiscard(monitor_rooms, user_sessions[sid].monitor_id, sid)
    ELSE monitor_rooms

disconnect(sid) ==
  /\ conn[sid] = "connected"
  /\ conn' = [conn EXCEPT ![sid] = "gone"]
  /\ conversations' = mark_conversation_disconnected(conversations, DisconnectMarks(sid))
  /\ out' = MarkEmits(conversations, DisconnectMarks(sid))
  /\ conversation_rooms' = cleanup_conversation_rooms(sid)
  /\ monitor_rooms' = cleanup_monitor_rooms(sid)
  /\ user_sessions' = DictDel(user_sessions, sid)
  /\ sio_rooms' = [conv |-> [c \in RoomIds |-> sio_rooms.conv[c] \ {sid}],
                   mon |-> [m \in MonitorIds |-> sio_rooms.mon[m] \ {sid}]]
  /\ emitted' = emitted \cup Broadcasts(out')
  /\ UNCHANGED <<messages, tasks, detection, asks>>

(************************* conversation registry ***************************)
Modes == {"ollama", "monitor"}
Senders == {"user", "monitor"}
NoRisk == "null"

(* The reply of the generation backend; the fixed immediate-support text.  *)
TextGenerated == [kws |-> {"<generated>"}, pats |-> {}]
TextApoioImediato == [kws |-> {"<CVV 188>"}, pats |-> {}]
TextSystem == [kws |-> {"<system>"}, pats |-> {}]

Message(sender, text, conversation_id) ==
  [sender |-> sender, text |-> text, conversation_id |-> conversation_id,
   flagged |-> FALSE, risk_level |-> NoRisk, escalation_level |-> "none",
   notified |-> FALSE]

(* A reply a started pipeline may still add: room is kept for it.          *)
Reserved ==
  Cardinality({t \in DOMAIN tasks : tasks[t].pc \in {"scheduled", "asking"}})
  + 2 * Cardinality({r \in DOMAIN asks : asks[r].pc = "asking"})
RoomFor(n) == Len(messages) + Reserved + n <= MaxMsgs

create_conversation ==
  /\ Cardinality(DOMAIN conversations) < MaxConvs
  /\ conversations' = conversations @@
       ((Cardinality(DOMAIN conversations) + 1) :>
          [mode |-> "ollama", status |-> "active", user_connected |-> TRUE])
  /\ out' = <<>>
  /\ UNCHANGED <<conn, routing, messages, tasks, emitted, detection, asks>>

(* What the three services return: the conversation or None, True or False. *)
set_conversation_mode_result(conversation_id) ==
  IF conversation_id \in DOMAIN conversations THEN "conv" ELSE "None"

escalate_to_monitor_result(conversation_id) == conversation_id \in DOMAIN conversations

(* monitor_take_control that never reports a missing conversation.         *)
monitor_take_control_result_always(conversation_id) == TRUE

monitor_take_control_result(conversation_id) == conversation_id \in DOMAIN conversations

(* set_conversation_mode that reopens a conversation handed back to the    *)
(* generation backend.                                                     *)
set_conversation_mode_reopens(conversation_id, mode) ==
  /\ conversations' =
       IF set_conversation_mode_result(conversation_id) # "None"
         THEN [conversations EXCEPT
                 ![conversation_id].mode = mode,
                 ![conversation_id].status = IF mode = "ollama" THEN "active" ELSE @]
         ELSE conversations
  /\ out' = IF set_conversation_mode_result(conversation_id) # "None"
              THEN <<>> ELSE HttpNotFound(conversation_id)
  /\ UNCHANGED <<conn, routing, messages, tasks, emitted, detection, asks>>

set_conversation_mode(conversation_id, mode) ==
  /\ conversations' =
       IF set_conversation_mode_result(conversation_id) # "None"
         THEN [conversations EXCEPT ![conversation_id].mode = mode]
         ELSE conversations
  /\ out' = IF set_conversation_mode_result(conversation_id) # "None"
              THEN <<>> ELSE HttpNotFound(conversation_id)
  /\ UNCHANGED <<conn, routing, messages, tasks, emitted, detection, asks>>

(* POST /monitor/escalate: escalate_to_monitor, then                       *)
(* broadcast_conversation_escalated to the room and every monitor room.    *)
escalate_to_monitor(conversation_id) ==
  /\ IF escalate_to_monitor_result(conversation_id)
       THEN /\ RoomFor(1)
            /\ conversations' = [conversations EXCEPT ![conversation_id].status = "escalated"]
            /\ messages' = Append(messages,
                 [Message("system", TextSystem, conversation_id)
                    EXCEPT !.escalation_level = "high"])
            /\ out' = <<Emit("conversation_escalated", ConvRoom(conversation_id),
                             conversation_id, 0, "")>>
                      \o ToMonitors(monitor_rooms, "conversation_escalated",
                                    conversation_id, 0, "")
       ELSE /\ out' = HttpNotFound(conversation_id)
            /\ UNCHANGED db
  /\ emitted' = emitted \cup Broadcasts(out')
  /\ UNCHANGED <<conn, routing, tasks, detection, asks>>

(* monitor_take_control that sets the mode and leaves the status alone.    *)
monitor_take_control_mode_only(conversation_id) ==
  /\ IF monitor_take_control_result(conversation_id)
       THEN /\ RoomFor(1)
            /\ conversations' = [conversations EXCEPT
                                   ![conversation_id].mode = "monitor"]
            /\ messages' = Append(messages, Message("system", TextSystem, conversation_id))
            /\ out' = <<Emit("monitor_joined", ConvRoom(conversation_id),
                             conversation_id, 0, "")>>
       ELSE /\ out' = HttpNotFound(conversation_id)
            /\ UNCHANGED db
  /\ emitted' = emitted \cup Broadcasts(out')
  /\ UNCHANGED <<conn, routing, tasks, detection, asks>>

(* POST /monitor/take-control: monitor_take_control, then                  *)
(* notify_monitor_joined to the conversation room.                         *)
monitor_take_control(conversation_id) ==
  /\ IF monitor_take_control_result(conversation_id)
       THEN /\ RoomFor(1)
            /\ conversations' = [conversations EXCEPT
                                   ![conversation_id].mode = "monitor",
                                   ![conversation_id].status = "escalated"]
            /\ messages' = Append(messages, Message("system", TextSystem, conversation_id))
            /\ out' = <<Emit("monitor_joined", ConvRoom(conversation_id),
                             conversation_id, 0, "")>>
       ELSE /\ out' = HttpNotFound(conversation_id)
            /\ UNCHANGED db
  /\ emitted' = emitted \cup Broadcasts(out')
  /\ UNCHANGED <<conn, routing, tasks, detection, asks>>

(* GET /monitor/dashboard: the conversations whose status is ACTIVE or     *)
(* ESCALATED (the order by updated_at is left out).                        *)
get_conversations_needing_attention ==
  {c \in DOMAIN conversations : conversations[c].status \in {"active", "escalated"}}

(* GET /monitor/flagged-messages: the ids of the messages the query        *)
(* returns, newest first (created_at follows the order of insertion),      *)
(* cut by LIMIT.                                                           *)
MaxLimit == 2
Limits == 0..MaxLimit

RECURSIVE Descending(_)
Descending(S) ==
  IF S = {} THEN <<>>
  ELSE LET m == CHOOSE x \in S : \A y \in S : y <= x
       IN <<m>> \o Descending(S \ {m})

Limit(rows, limit) == SubSeq(rows, 1, Min(limit, Len(rows)))

(* get_flagged_messages without the filter on notified.                    *)
get_flagged_messages_notified_too(limit) ==
  Limit(Descending({k \in 1..Len(messages) : messages[k].flagged}), limit)

get_flagged_messages(limit) ==
  Limit(Descending({k \in 1..Len(messages) :
                      messages[k].flagged /\ ~messages[k].notified}), limit)

(****************************** send_message *******************************)
NewMessageEmits(conversation_id, mid, sender) ==
  <<Emit("new_message", ConvRoom(conversation_id), conversation_id, mid, sender)>>
  \o ToMonitors(monitor_rooms, "new_message", conversation_id, mid, sender)

Task(conversation_id) ==
  [conversation_id |-> conversation_id, pc |-> "scheduled", risk_level |-> NoRisk,
   ai_response |-> 0, raised |-> FALSE]

(* send_monitor_message that only requires the conversation to exist.      *)
send_monitor_message_any_mode(sid, conversation_id, text) ==
  IF conversation_id \notin DOMAIN conversations
    THEN /\ out' = Error(sid, "Monitor must take control of conversation first")
         /\ UNCHANGED <<db, tasks>>
    ELSE /\ RoomFor(1)
         /\ messages' = Append(messages, Message("monitor", text, conversation_id))
         /\ out' = NewMessageEmits(conversation_id, Len(messages) + 1, "monitor")
         /\ UNCHANGED <<conversations, tasks>>

(* send_monitor_message that hands the message to the scoring task, as the *)
(* user branch does.                                                       *)
send_monitor_message_scored(sid, conversation_id, text) ==
  IF conversation_id \notin DOMAIN conversations
     \/ conversations[conversation_id].mode # "monitor"
    THEN /\ out' = Error(sid, "Monitor must take control of conversation first")
         /\ UNCHANGED <<db, tasks>>
    ELSE /\ RoomFor(2)
         /\ messages' = Append(messages, Message("monitor", text, conversation_id))
         /\ out' = NewMessageEmits(conversation_id, Len(messages) + 1, "monitor")
         /\ tasks' = tasks @@ ((Len(messages) + 1) :> Task(conversation_id))
         /\ UNCHANGED conversations

send_monitor_message(sid, conversation_id, text) ==
  IF conversation_id \notin DOMAIN conversations
     \/ conversations[conversation_id].mode # "monitor"
    THEN /\ out' = Error(sid, "Monitor must take control of conversation first")
         /\ UNCHANGED <<db, tasks>>
    ELSE /\ RoomFor(1)
         /\ messages' = Append(messages, Message("monitor", text, conversation_id))
         /\ out' = NewMessageEmits(conversation_id, Len(messages) + 1, "monitor")
         /\ UNCHANGED <<conversations, tasks>>

(* send_user_message that starts the background task without the fan-out. *)
send_user_message_task_first(sid, conversation_id, text, sender, fk) ==
  IF conversation_id \notin DOMAIN conversations /\ fk
    THEN /\ out' = Error(sid, "Failed to process message")
         /\ UNCHANGED <<db, tasks>>
    ELSE /\ RoomFor(2)
         /\ conversations' =
              IF conversation_id \in DOMAIN conversations
                THEN [conversations EXCEPT ![conversation_id].user_connected = TRUE]
                ELSE conversations
         /\ messages' = Append(messages, Message(sender, text, conversation_id))
         /\ out' = <<>>
         /\ tasks' = tasks @@ ((Len(messages) + 1) :> Task(conversation_id))

(* fk: whether the database enforces messages.conversation_id (the engine  *)
(* comes from DATABASE_URL); the commit of a message of an unknown         *)
(* conversation then raises and the handler's except branch answers.       *)
send_user_message(sid, conversation_id, text, sender, fk) ==
  IF conversation_id \notin DOMAIN conversations /\ fk
    THEN /\ out' = Error(sid, "Failed to process message")
         /\ UNCHANGED <<db, tasks>>
    ELSE /\ RoomFor(2)
         /\ conversations' =
              IF conversation_id \in DOMAIN conversations
                THEN [conversations EXCEPT ![conversation_id].user_connected = TRUE]
                ELSE conversations
         /\ messages' = Append(messages, Message(sender, text, conversation_id))
         /\ out' = NewMessageEmits(conversation_id, Len(messages) + 1, sender)
         /\ tasks' = tasks @@ ((Len(messages) + 1) :> Task(conversation_id))

(* send_message without the check of the required fields.                  *)
send_message_unvalidated(sid, conversation_id, text, sender, fk) ==
  /\ conn[sid] = "connected"
  /\ IF sender = "monitor"
       THEN send_monitor_message(sid, conversation_id, text)
       ELSE send_user_message(sid, conversation_id, text, sender, fk)
  /\ emitted' = emitted \cup Broadcasts(out')
  /\ UNCHANGED <<conn, routing, detection, asks>>

send_message(sid, conversation_id, text, sender, fk) ==
  /\ conn[sid] = "connected"
  /\ IF conversation_id = NoConv \/ text = NoText
       THEN /\ out' = Error(sid, "conversation_id and message required")
            /\ UNCHANGED <<db, tasks>>
       ELSE IF sender = "monitor"
         THEN send_monitor_message(sid, conversation_id, text)
         ELSE send_user_message(sid, conversation_id, text, sender, fk)
  /\ emitted' = emitted \cup Broadcasts(out')
  /\ UNCHANGED <<conn, routing, detection, asks>>

heartbeat(sid, conversation_id) ==
  /\ conn[sid] = "connected"
  /\ conversations' =
       IF conversation_id \in DOMAIN conversations
         THEN [conversations EXCEPT ![conversation_id].user_connected = TRUE]
         ELSE conversations
  /\ out' = <<>>
  /\ UNCHANGED <<conn, routing, messages, tasks, emitted, detection, asks>>

(********************* background task _process_ai_response ****************)
(* step 2 and 3 of analyze_and_respond on the stored user message          *)
Scored(msg, analysis) ==
  [msg EXCEPT !.flagged = analysis.requires_human,
              !.risk_level = analysis.risk_level,
              !.escalation_level = analysis.risk_level,
              !.notified = IF analysis.risk_level = "critical" THEN TRUE ELSE @]

Escalated_on_high(convs, conversation_id, analysis) ==
  IF analysis.risk_level \in {"high", "critical"}
    THEN [convs EXCEPT ![conversation_id].status = "escalated"]
    ELSE convs

Escalated(convs, conversation_id, analysis) ==
  IF analysis.risk_level = "critical"
    THEN [convs EXCEPT ![conversation_id].status = "escalated"]
    ELSE convs

(* Which branch of step 4 the conversation and the analysis select.        *)
ReplyBranch(conv, analysis) ==
  LET status == IF analysis.risk_level = "critical" THEN "escalated" ELSE conv.status
  IN IF conv.mode = "monitor" THEN "none"
     ELSE IF status = "escalated" /\ analysis.risk_level = "critical" THEN "fixed"
     ELSE IF conv.mode = "ollama" THEN "ollama"
     ELSE "none"

(* analyze_and_respond up to its first real suspension: the await of       *)
(* ollama_client.ask, or its return when no reply is generated.            *)
analyze_and_respond(mid) ==
  LET t == tasks[mid]
      c == t.conversation_id
      analysis == analyze_message(messages[mid].text)
      branch == ReplyBranch(conversations[c], analysis)
  IN
  /\ t.pc = "scheduled"
  /\ IF c \notin DOMAIN conversations
       THEN /\ tasks' = [tasks EXCEPT ![mid].pc = "done"]
            /\ UNCHANGED db
       ELSE
         CASE branch = "ollama" ->
                /\ tasks' = [tasks EXCEPT ![mid].pc = "asking",
                                          ![mid].risk_level = analysis.risk_level]
                /\ UNCHANGED db
           [] branch = "fixed" ->
                /\ messages' = Append([messages EXCEPT ![mid] = Scored(@, analysis)],
                                      Message("ai", TextApoioImediato, c))
                /\ conversations' = Escalated(conversations, c, analysis)
                /\ tasks' = [tasks EXCEPT ![mid].pc = "publish",
                                          ![mid].risk_level = analysis.risk_level,
                                          ![mid].ai_response = Len(messages) + 1]
           [] OTHER ->
                /\ messages' = [messages EXCEPT ![mid] = Scored(@, analysis)]
                /\ conversations' = Escalated(conversations, c, analysis)
                /\ tasks' = [tasks EXCEPT ![mid].pc = "publish",
                                          ![mid].risk_level = analysis.risk_level]
  /\ out' = <<>>
  /\ UNCHANGED <<conn, routing, emitted, detection, asks>>

(* ollama_client.ask returns: the reply is added and everything commits.   *)
ollama_reply(mid) ==
  LET t == tasks[mid]
      analysis == analyze_message(messages[mid].text)
  IN
  /\ t.pc = "asking"
  /\ messages' = Append([messages EXCEPT ![mid] = Scored(@, analysis)],
                        Message("ai", TextGenerated, t.conversation_id))
  /\ tasks' = [tasks EXCEPT ![mid].pc = "publish",
                            ![mid].ai_response = Len(messages) + 1]
  /\ out' = <<>>
  /\ UNCHANGED <<conn, routing, conversations, emitted, detection, asks>>

(* ollama_client.ask raises (transport error, raise_for_status): the       *)
(* exception leaves analyze_and_respond before db.commit and is logged by  *)
(* the except branch of _process_ai_response.                              *)
ollama_failure(mid) ==
  /\ tasks[mid].pc = "asking"
  /\ tasks' = [tasks EXCEPT ![mid].pc = "done", ![mid].raised = TRUE]
  /\ out' = <<>>
  /\ UNCHANGED <<conn, routing, db, emitted, detection, asks>>

RequiresHuman(t) == t.risk_level \in {"high", "critical"}

(* message_updated, then the fan-out of the reply                          *)
publish(mid) ==
  LET t == tasks[mid]
      c == t.conversation_id
  IN
  /\ t.pc = "publish"
  /\ out' = (IF RequiresHuman(t)
               THEN <<Emit("message_updated", ConvRoom(c), c, mid, t.risk_level)>>
               ELSE <<>>)
            \o (IF t.ai_response # 0
                  THEN NewMessageEmits(c, t.ai_response, "ai")
                  ELSE <<>>)
  /\ tasks' = [tasks EXCEPT ![mid].pc = IF RequiresHuman(t) THEN "alert" ELSE "done"]
  /\ emitted' = emitted \cup Broadcasts(out')
  /\ UNCHANGED <<conn, routing, db, detection, asks>>

(* The types of the values alert_data holds. 'risk_level' is converted to  *)
(* its value; 'analysis_details' is the dict the detector built, whose     *)
(* three sub-analyses hold members of the enum RiskLevel.                  *)
alert_data ==
  [conversation_id |-> "int", risk_level |-> "str", confidence |-> "float",
   keywords_found |-> "list", requires_human |-> "bool",
   emergency_contact |-> "bool",
   keyword_analysis_risk_level |-> "RiskLevel",
   pattern_analysis_risk_level |-> "RiskLevel",
   ai_analysis_risk_level |-> "RiskLevel",
   message |-> "str", timestamp |-> "str"]

(* The server is built with the default codec: json.dumps raises TypeError *)
(* on a value that is not of a JSON type.                                  *)
JsonTypes == {"int", "str", "float", "bool", "list", "dict", "None"}
json_dumps_raises(data) == \E k \in DOMAIN data : data[k] \notin JsonTypes

(* Where the installed Socket.IO server encodes a packet: inside sio.emit, *)
(* so that the TypeError leaves emit and the loop over the monitor rooms,  *)
(* or in the send task of each recipient, so that emit returns.            *)
SioBuilds == {"encode_in_emit", "encode_in_send_task"}

emit_raises(data, build) == json_dumps_raises(data) /\ build = "encode_in_emit"

(* broadcast_crisis_alert without the user_connected re-check.             *)
broadcast_crisis_alert_unchecked(conversation_id, mid, build) ==
  IF conversation_id \notin DOMAIN conversations
    THEN <<>>
    ELSE IF DOMAIN monitor_rooms # {} /\ emit_raises(alert_data, build)
      THEN <<>>
      ELSE ToMonitors(monitor_rooms, "crisis_alert", conversation_id, mid, "")

(* The emits of broadcast_crisis_alert that return: none when the first    *)
(* one raises.                                                             *)
broadcast_crisis_alert(conversation_id, mid, build) ==
  IF conversation_id \notin DOMAIN conversations
     \/ ~conversations[conversation_id].user_connected
    THEN <<>>
    ELSE IF DOMAIN monitor_rooms # {} /\ emit_raises(alert_data, build)
      THEN <<>>
      ELSE ToMonitors(monitor_rooms, "crisis_alert", conversation_id, mid, "")

(* The TypeError of an emit is logged by _process_ai_response.             *)
alert(mid, build) ==
  /\ tasks[mid].pc = "alert"
  /\ out' = broadcast_crisis_alert(tasks[mid].conversation_id, mid, build)
  /\ tasks' = [tasks EXCEPT ![mid].pc = "done"]
  /\ emitted' = emitted \cup Broadcasts(out')
  /\ UNCHANGED <<conn, routing, db, detection, asks>>

(******** POST /conversations/{conversation_id}/ask-with-crisis-detection ***)
MaxAsks == 1

Ask(conversation_id, text, analysis, pc) ==
  [conversation_id |-> conversation_id, text |-> text,
   risk_level |-> analysis.risk_level, requires_human |-> analysis.requires_human,
   pc |-> pc]

(* Step 4 of get_response_with_crisis_detection: a reply is generated only *)
(* for a conversation in mode "ollama" that is not escalated.              *)
AskBranch(conv, analysis) ==
  LET status == IF analysis.risk_level = "critical" THEN "escalated" ELSE conv.status
  IN IF conv.mode = "monitor" THEN "none"
     ELSE IF status # "escalated" /\ conv.mode = "ollama" THEN "ollama"
     ELSE "none"

HttpResponse(code, c, detail) == <<Emit(code, ToCaller, c, 0, detail)>>

AfterResponse(analysis) == IF analysis.requires_human THEN "notify" ELSE "done"

(* The endpoint up to its first real suspension: the await of              *)
(* ollama_client.ask, or its response when no reply is generated. The user *)
(* message is added to the session before the await and written by the     *)
(* commit that follows it.                                                 *)
ask_with_crisis_detection(conversation_id, text) ==
  LET rid == Cardinality(DOMAIN asks) + 1
      analysis == analyze_message(text)
  IN
  /\ rid <= MaxAsks
  /\ IF conversation_id \notin DOMAIN conversations
       THEN /\ out' = HttpNotFound(conversation_id)
            /\ UNCHANGED <<db, asks>>
       ELSE IF AskBranch(conversations[conversation_id], analysis) = "ollama"
         THEN /\ RoomFor(2)
              /\ asks' = asks @@ (rid :> Ask(conversation_id, text, analysis, "asking"))
              /\ out' = <<>>
              /\ UNCHANGED db
         ELSE /\ RoomFor(1)
              /\ messages' = Append(messages,
                                    Scored(Message("user", text, conversation_id), analysis))
              /\ conversations' = Escalated(conversations, conversation_id, analysis)
              /\ asks' = asks @@ (rid :> Ask(conversation_id, text, analysis,
                                            AfterResponse(analysis)))
              /\ out' = IF conversations'[conversation_id].status = "escalated"
                          THEN HttpResponse("http_200", conversation_id, "escalated")
                          ELSE HttpResponse("http_204", conversation_id, "")
  /\ UNCHANGED <<conn, routing, tasks, emitted, detection>>

(* ollama_client.ask returns: the user message and the reply are written   *)
(* by the one commit, and the response carries the reply.                  *)
ask_with_crisis_detection_reply(rid) ==
  LET a == asks[rid]
      analysis == analyze_message(a.text)
  IN
  /\ a.pc = "asking"
  /\ messages' = messages
                  \o <<Scored(Message("user", a.text, a.conversation_id), analysis),
                       Message("ai", TextGenerated, a.conversation_id)>>
  /\ asks' = [asks EXCEPT ![rid].pc = AfterResponse(analysis)]
  /\ out' = HttpResponse("http_200", a.conversation_id, "ai_response")
  /\ UNCHANGED <<conn, routing, conversations, tasks, emitted, detection>>

(* ollama_client.ask raises: the exception leaves the endpoint before      *)
(* db.commit and before the notification task is added.                    *)
ask_with_crisis_detection_raises(rid) ==
  /\ asks[rid].pc = "asking"
  /\ asks' = [asks EXCEPT ![rid].pc = "done"]
  /\ out' = HttpResponse("http_500", asks[rid].conversation_id, "")
  /\ UNCHANGED <<conn, routing, db, tasks, emitted, detection>>

(* The background task the endpoint adds when the analysis requires a      *)
(* human; a TypeError of an emit is caught and printed.                    *)
_notify_monitors_of_crisis(rid, build) ==
  /\ asks[rid].pc = "notify"
  /\ out' = broadcast_crisis_alert(asks[rid].conversation_id, 0, build)
  /\ asks' = [asks EXCEPT ![rid].pc = "done"]
  /\ emitted' = emitted \cup Broadcasts(out')
  /\ UNCHANGED <<conn, routing, db, tasks, detection>>

(* GET /monitor/debug/connected                                            *)
get_connected_monitors ==
  [total_monitors |-> Cardinality(DOMAIN monitor_rooms),
   monitor_ids |-> DOMAIN monitor_rooms,
   monitor_details |-> [m \in DOMAIN monitor_rooms |-> Cardinality(monitor_rooms[m])]]

(****************************** specifications *****************************)
UserTypes == {"user", "monitor"}

(* An id no conversation ever has, for the not-found paths.                *)
UnknownConv == MaxRegistryConvs + 1

(* The session router alone, from the state after construction.            *)
NextRouter ==
  \/ \E sid \in Sids : connect(sid)
  \/ \E sid \in Sids : disconnect(sid)
  \/ \E sid \in Sids, c \in ConvIds \cup {NoConv}, u \in UserTypes :
       join_conversation(sid, c, u)
  \/ \E sid \in Sids, m \in MonitorIds \cup {NoMonitor}, tok \in Tokens :
       join_monitor(sid, m, tok)
  \/ \E sid \in Sids, c \in ConvIds \cup {NoConv} : leave_conversation(sid, c)
  \/ \E sid \in Sids, c \in ConvIds : heartbeat(sid, c)
  \/ create_conversation
  \/ \E sid \in Sids : send_message(sid, NoConv, TextOla, "user", TRUE)
  \/ \E sid \in Sids, c \in ConvIds : send_message(sid, c, NoText, "user", TRUE)

SpecRouter == InitRouter /\ [][NextRouter]_vars

(* The crisis detector alone: a call is given a text and an answer of the  *)
(* judge (answer: what the generation backend would reply);                *)
(* combine_analyses aggregates the three sub-analyses of that call,        *)
(* analyze runs analyze_message as the code does, with its own judge call. *)
InitDetector ==
  /\ conn = [s \in Sids |-> "new"]
  /\ sio_rooms = [conv |-> [c \in RoomIds |-> {}], mon |-> [m \in MonitorIds |-> {}]]
  /\ conversation_rooms = EmptyDict
  /\ monitor_rooms = EmptyDict
  /\ user_sessions = EmptyDict
  /\ conversations = EmptyDict
  /\ messages = <<>>
  /\ tasks = EmptyDict
  /\ out = <<>>
  /\ emitted = {}
  /\ asks = EmptyDict
  /\ detection \in {[pc |-> "input", text |-> t, answer |-> a.ai_response,
                       ai_analysis |-> a, final |-> NoAnalysis] :
                       t \in DetectorTexts, a \in AiAnalyses}

combine_analyses ==
  /\ detection.pc = "input"
  /\ detection' = [detection EXCEPT
       !.pc = "combined",
       !.final = _combine_analyses(_analyze_keywords(detection.text),
                                   _analyze_patterns(detection.text),
                                   detection.ai_analysis)]
  /\ UNCHANGED <<conn, routing, db, tasks, out, emitted, asks>>

analyze ==
  /\ detection.pc = "input"
  /\ detection' = [detection EXCEPT
       !.pc = "analyzed",
       !.ai_analysis = _analyze_with_ai(detection.text),
       !.final = analyze_message(detection.text)]
  /\ UNCHANGED <<conn, routing, db, tasks, out, emitted, asks>>

NextDetector ==
  \/ combine_analyses
  \/ analyze

SpecDetector == InitDetector /\ [][NextDetector]_vars

(* The conversation registry and the requests that name a conversation    *)
(* no row exists for, on a server in service (the state Init below).       *)
FkChoices == BOOLEAN

NextRegistry ==
  \/ \E c \in RegistryConvIds \cup {UnknownConv}, mode \in Modes :
       set_conversation_mode(c, mode)
  \/ \E c \in RegistryConvIds \cup {UnknownConv} : escalate_to_monitor(c)
  \/ \E c \in RegistryConvIds \cup {UnknownConv} : monitor_take_control(c)
  \/ \E sid \in Sids \ {1}, text \in {TextOla, TextQueroMeMatar}, fk \in FkChoices :
       send_message(sid, UnknownConv, text, "user", fk)
  \/ \E mid \in DOMAIN tasks : analyze_and_respond(mid)

(* The message flow of a server in service: the conversations exist, the   *)
(* first connection is a monitor in the pool of "ana", the others are user *)
(* connections of conversation 1.                                          *)
MonitorSids == {1}
UserSids == Sids \ MonitorSids

Init ==
  /\ conn = [s \in Sids |-> "connected"]
  /\ sio_rooms = [conv |-> [c \in RoomIds |-> IF c = 1 THEN Sids \ {1} ELSE {}],
                  mon |-> [m \in MonitorIds |-> IF m = "ana" THEN {1} ELSE {}]]
  /\ conversation_rooms = (1 :> (Sids \ {1}))
  /\ monitor_rooms = ("ana" :> {1})
  /\ user_sessions =
       [s \in Sids |->
          IF s = 1
            THEN [type |-> "monitor", monitor_id |-> "ana", conversations |-> <<>>]
            ELSE [type |-> "user", monitor_id |-> NoMonitor, conversations |-> <<1>>]]
  /\ conversations =
       [c \in ConvIds |-> [mode |-> "ollama", status |-> "active", user_connected |-> TRUE]]
  /\ messages = <<>>
  /\ tasks = EmptyDict
  /\ out = <<>>
  /\ emitted = {}
  /\ detection = NoDetection
  /\ asks = EmptyDict

Next ==
  \/ \E sid \in Sids : disconnect(sid)
  \/ \E sid \in UserSids, c \in ConvIds, text \in Texts :
       send_message(sid, c, text, "user", TRUE)
  \/ \E sid \in MonitorSids, c \in ConvIds \cup {UnknownConv} :
       send_message(sid, c, TextOla, "monitor", TRUE)
  \/ \E sid \in UserSids, c \in ConvIds : heartbeat(sid, c)
  \/ \E c \in ConvIds, mode \in Modes : set_conversation_mode(c, mode)
  \/ \E c \in ConvIds : monitor_take_control(c)
  \/ \E mid \in DOMAIN tasks : analyze_and_respond(mid)
  \/ \E mid \in DOMAIN tasks : ollama_reply(mid)
  \/ \E mid \in DOMAIN tasks : ollama_failure(mid)
  \/ \E mid \in DOMAIN tasks : publish(mid)
  \/ \E mid \in DOMAIN tasks, build \in SioBuilds : alert(mid, build)

Spec == Init /\ [][Next]_vars

(* The REST endpoint next to the WebSocket pipeline, on one conversation.  *)
NextAsk ==
  \/ \E c \in ConvIds \cup {UnknownConv}, text \in Texts :
       ask_with_crisis_detection(c, text)
  \/ \E rid \in DOMAIN asks : ask_with_crisis_detection_reply(rid)
  \/ \E rid \in DOMAIN asks : ask_with_crisis_detection_raises(rid)
  \/ \E rid \in DOMAIN asks, build \in SioBuilds : _notify_monitors_of_crisis(rid, build)
  \/ \E sid \in UserSids, c \in ConvIds, text \in {TextQueroMeMatar, TextVouMeMatar} :
       send_message(sid, c, text, "user", TRUE)
  \/ \E c \in ConvIds, mode \in Modes : set_conversation_mode(c, mode)
  \/ \E c \in ConvIds : monitor_take_control(c)
  \/ \E mid \in DOMAIN tasks : analyze_and_respond(mid)
  \/ \E mid \in DOMAIN tasks : ollama_reply(mid)
  \/ \E mid \in DOMAIN tasks : ollama_failure(mid)
  \/ \E mid \in DOMAIN tasks : publish(mid)
  \/ \E mid \in DOMAIN tasks, build \in SioBuilds : alert(mid, build)

SpecAsk == Init /\ [][NextAsk]_vars

(* The registry of a server in service holds several conversations.       *)
InitRegistry ==
  /\ conn = [s \in Sids |-> "connected"]
  /\ sio_rooms = [conv |-> [c \in RoomIds |-> IF c = 1 THEN Sids \ {1} ELSE {}],
                  mon |-> [m \in MonitorIds |-> IF m = "ana" THEN {1} ELSE {}]]
  /\ conversation_rooms = (1 :> (Sids \ {1}))
  /\ monitor_rooms = ("ana" :> {1})
  /\ user_sessions =
       [s \in Sids |->
          IF s = 1
            THEN [type |-> "monitor", monitor_id |-> "ana", conversations |-> <<>>]
            ELSE [type |-> "user", monitor_id |-> NoMonitor, conversations |-> <<1>>]]
  /\ conversations =
       [c \in RegistryConvIds |->
          [mode |-> "ollama", status |-> "active", user_connected |-> TRUE]]
  /\ messages = <<>>
  /\ tasks = EmptyDict
  /\ out = <<>>
  /\ emitted = {}
  /\ detection = NoDetection
  /\ asks = EmptyDict

SpecRegistry == InitRegistry /\ [][NextRegistry]_vars

(* The chat of the monitors: takeovers, mode changes, the join of a        *)
(* further monitor pool and send_message events with sender 'monitor'      *)
(* whose text holds a critical pattern.                                    *)
NextMonitorChat ==
  \/ \E c \in RegistryConvIds : monitor_take_control(c)
  \/ \E c \in RegistryConvIds, mode \in Modes : set_conversation_mode(c, mode)
  \/ \E sid \in UserSids, m \in MonitorIds : join_monitor(sid, m, TokenOf(m))
  \/ \E sid \in Sids, c \in RegistryConvIds \cup {UnknownConv} :
       send_message(sid, c, TextVouMeMatar, "monitor", TRUE)

SpecMonitorChat == InitRegistry /\ [][NextMonitorChat]_vars

(******************************** properties *******************************)
TaskConv(mid) == tasks[mid].conversation_id
AnalysisOf(mid) == analyze_message(messages[mid].text)
AlertsFor(mid, es) == {e \in es : e.event = "crisis_alert" /\ e.message_id = mid}
UserConnected(c) == conversations[c].user_connected

(* sid is a live user connection of conversation c: it joined c and its    *)
(* session is bound as 'user'.                                             *)
UserConnectionOf(sid, c) ==
  /\ conn[sid] = "connected"
  /\ sid \in DOMAIN user_sessions
  /\ user_sessions[sid].type = "user"
  /\ c \in Range(user_sessions[sid].conversations)

(* An automated reply of conversation c is persisted by this step.         *)
ReplyAdded(c) ==
  /\ Len(messages') = Len(messages) + 1
  /\ messages'[Len(messages')].sender = "ai"
  /\ messages'[Len(messages')].conversation_id = c

ReplyBroadcast(c) ==
  \E i \in 1..Len(out') :
    /\ out'[i].event = "new_message"
    /\ out'[i].detail = "ai"
    /\ out'[i].conversation_id = c

(* C1: the pipeline of a user message of an existing conversation whose    *)
(* analysis requires a human always ends through the alert step, whatever  *)
(* the generation backend does, and the alert step withholds crisis_alert  *)
(* only when user_connected is false or there is no monitor pool.          *)
C1_AlertAlwaysAttempted ==
  [][\A mid \in DOMAIN tasks :
       ( /\ tasks[mid].pc # "done"
         /\ tasks'[mid].pc = "done"
         /\ TaskConv(mid) \in DOMAIN conversations
         /\ AnalysisOf(mid).requires_human )
       => /\ tasks[mid].pc = "alert"
          /\ AlertsFor(mid, Range(out')) = {}
               => (~UserConnected(TaskConv(mid)) \/ DOMAIN monitor_rooms = {})]_vars

C3_NoReplyInMonitorMode ==
  [][\A c \in DOMAIN conversations :
       conversations[c].mode = "monitor"
       => (~ReplyAdded(c) /\ ~ReplyBroadcast(c))]_vars

(* C4: whenever message_updated or the automated reply derived from a user *)
(* message is emitted, the new_message broadcast of that raw message to    *)
(* the conversation room was emitted by an earlier step.                   *)
Derived(e, mid) ==
  \/ e.event = "message_updated" /\ e.message_id = mid
  \/ /\ e.event = "new_message"
     /\ e.detail = "ai"
     /\ tasks[mid].ai_response # 0
     /\ e.message_id = tasks[mid].ai_response

RawBroadcast(mid) ==
  Emit("new_message", ConvRoom(TaskConv(mid)), TaskConv(mid), mid,
       messages[mid].sender)

C4_RawBeforeDerived ==
  [][\A mid \in DOMAIN tasks : \A i \in 1..Len(out') :
       Derived(out'[i], mid) => RawBroadcast(mid) \in emitted]_vars

C4_Witness ==
  \E mid \in DOMAIN tasks :
    /\ tasks[mid].ai_response # 0
    /\ Emit("message_updated", ConvRoom(TaskConv(mid)), TaskConv(mid), mid,
            tasks[mid].risk_level) \in emitted
    /\ Emit("new_message", ConvRoom(TaskConv(mid)), TaskConv(mid),
            tasks[mid].ai_response, "ai") \in emitted
    /\ Emit("new_message", MonRoom("ana"), TaskConv(mid),
            tasks[mid].ai_response, "ai") \in emitted

(* C5: once the fixed-text immediate-support message has been sent in a    *)
(* conversation whose mode is not 'monitor', no further automated reply is *)
(* added to that conversation before a human has acted (a system or        *)
(* monitor message follows the support message).                           *)
AwaitingHuman(c) ==
  /\ conversations[c].mode # "monitor"
  /\ conversations[c].status = "escalated"
  /\ \E k \in 1..Len(messages) :
       /\ messages[k].conversation_id = c
       /\ messages[k].text = TextApoioImediato
       /\ \A j \in (k + 1)..Len(messages) :
            messages[j].conversation_id = c
            => messages[j].sender \notin {"system", "monitor"}

C5_OneSupportMessageThenSilence ==
  [][\A c \in DOMAIN conversations : AwaitingHuman(c) => ~ReplyAdded(c)]_vars

(* C6: when the pipeline of a user message scored HIGH or CRITICAL has     *)
(* ended, the stored message has flagged = true and risk_level 'high' or   *)
(* 'critical', and the conversation's status is ESCALATED.                 *)
C6_FlaggedAndEscalated ==
  \A mid \in DOMAIN tasks :
    ( /\ tasks[mid].pc = "done"
      /\ TaskConv(mid) \in DOMAIN conversations
      /\ AnalysisOf(mid).risk_level \in {"high", "critical"} )
    => /\ messages[mid].flagged
       /\ messages[mid].risk_level \in {"high", "critical"}
       /\ conversations[TaskConv(mid)].status = "escalated"

(* C7: a disconnected connection is a member of no conversation room and   *)
(* of no monitor pool, and has no session binding.                         *)
C7_DisconnectRemovesEverywhere ==
  \A sid \in Sids :
    conn[sid] = "gone"
    => /\ \A c \in DOMAIN conversation_rooms : sid \notin conversation_rooms[c]
       /\ \A m \in DOMAIN monitor_rooms : sid \notin monitor_rooms[m]
       /\ sid \notin DOMAIN user_sessions

(* C8: when a user connection of a conversation disconnects while another  *)
(* user connection of the same conversation is still connected, the        *)
(* conversation keeps user_connected = true.                               *)
C8_KeepsConnectedWhileOthersRemain ==
  [][\A sid \in Sids, c \in DOMAIN conversations :
       ( /\ UserConnectionOf(sid, c)
         /\ conn'[sid] = "gone"
         /\ UserConnected(c)
         /\ \E other \in Sids \ {sid} : UserConnectionOf(other, c) )
       => conversations'[c].user_connected]_vars

(* C9: a message with sender 'monitor' is persisted only for an existing   *)
(* conversation whose mode is 'monitor'; a monitor send_message for any    *)
(* other conversation answers the sender with an error and persists        *)
(* nothing, broadcasts nothing and starts no background task.              *)
MonitorMessageAdded ==
  /\ Len(messages') = Len(messages) + 1
  /\ messages'[Len(messages')].sender = "monitor"

ControlledByMonitor(c) ==
  c \in DOMAIN conversations /\ conversations[c].mode = "monitor"

C9_MonitorSendNeedsControl ==
  [][/\ MonitorMessageAdded
          => ControlledByMonitor(messages'[Len(messages')].conversation_id)
     /\ \A sid \in Sids, c \in ConvIds \cup {UnknownConv}, text \in Texts :
          (send_message(sid, c, text, "monitor", TRUE) /\ ~ControlledByMonitor(c))
          => /\ Len(out') = 1
             /\ out'[1].event = "error"
             /\ out'[1].to = ToSid(sid)
             /\ UNCHANGED <<conversations, messages, tasks, emitted>>]_vars

C9_Witness ==
  \E sid \in Sids :
    /\ out = Error(sid, "Monitor must take control of conversation first")
    /\ 1 \in DOMAIN conversations
    /\ conversations[1].mode # "monitor"
    /\ Len(messages) > 0

(* C10: join_monitor with a missing token, an undecodable token, a token   *)
(* without subject or a token of another subject answers the sender with   *)
(* an error and changes none of the routing maps.                          *)
InvalidCredential(monitor_id, token) ==
  \/ token = NoToken
  \/ token = GarbageToken
  \/ token = NoSubToken
  \/ token \in {TokenOf(m) : m \in MonitorIds \ {monitor_id}}

C10_RejectedJoinMonitor ==
  [][\A sid \in Sids, m \in MonitorIds, tok \in Tokens :
       (InvalidCredential(m, tok) /\ join_monitor(sid, m, tok))
       => /\ Len(out') = 1
          /\ out'[1].event = "error"
          /\ out'[1].to = ToSid(sid)
          /\ UNCHANGED <<monitor_rooms, conversation_rooms, user_sessions, sio_rooms>>]_vars

C10_Witness ==
  \E sid \in Sids :
    /\ out = Error(sid, "Monitor ID does not match authenticated user")
    /\ conn[sid] = "connected"
    /\ \A m \in DOMAIN monitor_rooms : sid \notin monitor_rooms[m]
    /\ \E m \in DOMAIN monitor_rooms : monitor_rooms[m] # {}

(* C11: get_conversations_needing_attention returns no conversation whose  *)
(* user_connected is false: every conversation it returns has status       *)
(* ACTIVE or ESCALATED and user_connected = true.                          *)
C11_AttentionOnlyConnected ==
  \A c \in get_conversations_needing_attention :
    /\ conversations[c].status \in {"active", "escalated"}
    /\ conversations[c].user_connected

(* C12: get_conversations_needing_attention returns exactly the ESCALATED  *)
(* conversations (connected or not) and the ACTIVE conversations whose     *)
(* user_connected is true.                                                 *)
C12_AttentionEscalatedOrConnected ==
  \A c \in DOMAIN conversations :
    c \in get_conversations_needing_attention
    <=> \/ conversations[c].status = "escalated"
        \/ conversations[c].status = "active" /\ conversations[c].user_connected

(* The sub-analyses of the detector call and whether it has a result.      *)
Detected == detection.pc \in {"combined", "analyzed"}
SubAnalyses == <<_analyze_keywords(detection.text), _analyze_patterns(detection.text),
                 detection.ai_analysis>>
SubLevels == {SubAnalyses[i].risk_level : i \in 1..3}

(* C13: the risk_level of the aggregated analysis is the maximum of the    *)
(* levels of the keyword, pattern and judge sub-analyses under the order   *)
(* NONE < LOW < MEDIUM < HIGH < CRITICAL, whichever source produced it.    *)
C13_RiskIsMaximum ==
  Detected =>
    /\ detection.final.risk_level \in SubLevels
    /\ \A l \in SubLevels : RiskIndex(l) <= RiskIndex(detection.final.risk_level)

(* The judge alone produced the maximum.                                   *)
C13_Witness ==
  /\ detection.pc = "combined"
  /\ detection.final.risk_level = "critical"
  /\ SubAnalyses[1].risk_level = "medium"
  /\ SubAnalyses[2].risk_level = "none"
  /\ SubAnalyses[3].risk_level = "critical"

(* C14: every analysis analyze_message produces has requires_human true   *)
(* exactly when its risk_level is HIGH or CRITICAL and emergency_contact   *)
(* true exactly when its risk_level is CRITICAL.                           *)
C14_FlagsFollowLevel ==
  detection.pc = "analyzed" =>
    /\ detection.final.requires_human
         <=> detection.final.risk_level \in {"high", "critical"}
    /\ detection.final.emergency_contact
         <=> detection.final.risk_level = "critical"

(* analyze_message produced a HIGH analysis: a human, no emergency.        *)
C14_Witness ==
  /\ detection.pc = "analyzed"
  /\ detection.final.risk_level = "high"
  /\ detection.final.requires_human
  /\ ~detection.final.emergency_contact

(* C15: the aggregated confidence is min(mean x 1.3, 1.0) when at least    *)
(* two of the three sub-analyses have the maximum level, and the plain     *)
(* mean of the three sub-confidences otherwise (in units of 1/30000: the   *)
(* mean of three thousandths is 10 x their sum).                           *)
TopLevel == CHOOSE l \in SubLevels : \A m \in SubLevels : RiskIndex(m) <= RiskIndex(l)
AtTop == {i \in 1..3 : SubAnalyses[i].risk_level = TopLevel}
SumOfConfidences ==
  SubAnalyses[1].confidence + SubAnalyses[2].confidence + SubAnalyses[3].confidence

C15_BoostOnAgreementOnly ==
  Detected =>
    /\ Cardinality(AtTop) >= 2
         => detection.final.confidence =
              (IF 13 * SumOfConfidences <= 30000 THEN 13 * SumOfConfidences ELSE 30000)
    /\ Cardinality(AtTop) < 2
         => detection.final.confidence = 10 * SumOfConfidences

(* Exactly two sources agree on the maximum and the boost is not capped.   *)
C15_Witness ==
  /\ detection.pc = "combined"
  /\ Cardinality(AtTop) = 2
  /\ SumOfConfidences > 0
  /\ 13 * SumOfConfidences < 30000
  /\ detection.final.confidence = 13 * SumOfConfidences

(* C16: whenever the text matches a critical pattern, the aggregated       *)
(* analysis is CRITICAL with requires_human and emergency_contact true,    *)
(* whatever the keyword scorer and the judge return.                       *)
C16_PatternMatchIsCritical ==
  (Detected /\ detection.text.pats # {}) =>
    /\ detection.final.risk_level = "critical"
    /\ detection.final.requires_human
    /\ detection.final.emergency_contact

(* A pattern match without any keyword, and the judge has failed.          *)
C16_Witness ==
  /\ Detected
  /\ detection.text.pats # {}
  /\ SubAnalyses[1].risk_level = "none"
  /\ detection.ai_analysis.ai_response = "Erro"
  /\ detection.final.risk_level = "critical"
  /\ detection.final.emergency_contact

(* C17: a join_conversation leaves the connection in the conversation's    *)
(* room with the conversation in its session; repeated on a connection     *)
(* that is already so joined it changes neither conversation_rooms nor     *)
(* user_sessions; and on a connection bound as a monitor it keeps the role *)
(* 'monitor' and the monitor_id.                                           *)
Joined(sid, c) ==
  /\ c \in DOMAIN conversation_rooms
  /\ sid \in conversation_rooms[c]
  /\ sid \in DOMAIN user_sessions
  /\ c \in Range(user_sessions[sid].conversations)

BoundAsMonitor(sid) ==
  sid \in DOMAIN user_sessions /\ user_sessions[sid].type = "monitor"

C17_JoinConversationIdempotent ==
  [][\A sid \in Sids, c \in ConvIds, u \in UserTypes :
       join_conversation(sid, c, u)
       => /\ Joined(sid, c)'
          /\ Joined(sid, c) => UNCHANGED <<conversation_rooms, user_sessions>>
          /\ BoundAsMonitor(sid)
               => /\ user_sessions'[sid].type = "monitor"
                  /\ user_sessions'[sid].monitor_id = user_sessions[sid].monitor_id]_vars

(* A connection in the pool of "ana" has just joined conversation 1 and is *)
(* still bound as the monitor "ana".                                       *)
C17_Witness ==
  \E sid \in Sids :
    /\ out = <<Emit("joined_conversation", ToSid(sid), 1, 0, "")>>
    /\ Joined(sid, 1)
    /\ BoundAsMonitor(sid)
    /\ user_sessions[sid].monitor_id = "ana"
    /\ sid \in monitor_rooms["ana"]

(* C18: a successful join_monitor leaves conversation_rooms, the rooms of  *)
(* the transport and the connection's conversation list unchanged, puts the connection in the    *)
(* pool of monitor_id and removes no connection from any pool.             *)
C18_JoinMonitorKeepsSubscriptions ==
  [][\A sid \in Sids, m \in MonitorIds, tok \in Tokens :
       (authenticate_monitor(m, tok) = "ok" /\ join_monitor(sid, m, tok))
       => /\ UNCHANGED conversation_rooms
          /\ sio_rooms'.conv = sio_rooms.conv
          /\ sid \in DOMAIN user_sessions
               => user_sessions'[sid].conversations = user_sessions[sid].conversations
          /\ sid \in monitor_rooms'[m]
          /\ \A k \in DOMAIN monitor_rooms :
               k \in DOMAIN monitor_rooms' /\ monitor_rooms[k] \subseteq monitor_rooms'[k]]_vars

(* A connection that had joined conversation 1 has just joined the pool of *)
(* "ana", where another connection already was.                            *)
C18_Witness ==
  \E sid \in Sids :
    /\ out = <<Emit("joined_monitor", ToSid(sid), 0, 0, "ana")>>
    /\ Joined(sid, 1)
    /\ BoundAsMonitor(sid)
    /\ {sid} \subseteq monitor_rooms["ana"]
    /\ monitor_rooms["ana"] # {sid}

(* C19: a send_message with sender 'user' for a conversation that does not *)
(* exist persists no message, broadcasts nothing, starts no background     *)
(* task and answers the sender with an error.                              *)
C19_UnknownConversationIsNoOp ==
  [][\A sid \in Sids, text \in Texts, fk \in FkChoices :
       (UnknownConv \notin DOMAIN conversations
        /\ send_message(sid, UnknownConv, text, "user", fk))
       => /\ UNCHANGED <<conversations, messages, tasks, emitted>>
          /\ Len(out') = 1
          /\ out'[1].event = "error"
          /\ out'[1].to = ToSid(sid)]_vars

(* C20: monitor_take_control, escalate_to_monitor and set_conversation_mode *)
(* called for a conversation that does not exist return False, False and   *)
(* None, change no conversation, add no message and notify nobody; the     *)
(* route answers 404. This holds at every call.                            *)
C20_UnknownConversationFails ==
  [][\A c \in RegistryConvIds \cup {UnknownConv} :
       c \notin DOMAIN conversations
       => /\ monitor_take_control(c)
               => /\ ~monitor_take_control_result(c)
                  /\ UNCHANGED <<conversations, messages, emitted>>
                  /\ out' = HttpNotFound(c)
          /\ escalate_to_monitor(c)
               => /\ ~escalate_to_monitor_result(c)
                  /\ UNCHANGED <<conversations, messages, emitted>>
                  /\ out' = HttpNotFound(c)
          /\ \A mode \in Modes :
               set_conversation_mode(c, mode)
               => /\ set_conversation_mode_result(c) = "None"
                  /\ UNCHANGED <<conversations, messages, emitted>>
                  /\ out' = HttpNotFound(c)]_vars

(* A call for the missing conversation has just been answered, after the   *)
(* registry had already been changed by calls for conversation 1.          *)
C20_Witness ==
  /\ out = HttpNotFound(UnknownConv)
  /\ UnknownConv \notin DOMAIN conversations
  /\ conversations[1].mode = "monitor"
  /\ Len(messages) >= 2

(* C21: monitor_take_control on an existing conversation, whatever its     *)
(* mode and status, returns True, leaves mode = 'monitor' and status =     *)
(* ESCALATED, adds exactly one message, with sender 'system', to that      *)
(* conversation, and changes no other conversation.                        *)
C21_TakeControl ==
  [][\A c \in RegistryConvIds :
       (c \in DOMAIN conversations /\ monitor_take_control(c))
       => /\ monitor_take_control_result(c)
          /\ conversations'[c].mode = "monitor"
          /\ conversations'[c].status = "escalated"
          /\ Len(messages') = Len(messages) + 1
          /\ SubSeq(messages', 1, Len(messages)) = messages
          /\ messages'[Len(messages')].sender = "system"
          /\ messages'[Len(messages')].conversation_id = c
          /\ DOMAIN conversations' = DOMAIN conversations
          /\ \A d \in DOMAIN conversations \ {c} :
               conversations'[d] = conversations[d]]_vars

(* Conversation 2 has just been taken over while conversation 1 stays      *)
(* ACTIVE under the mode a set_conversation_mode gave it.                  *)
C21_Witness ==
  /\ out = <<Emit("monitor_joined", ConvRoom(2), 2, 0, "")>>
  /\ conversations[2].mode = "monitor"
  /\ conversations[2].status = "escalated"
  /\ conversations[1].mode = "monitor"
  /\ conversations[1].status = "active"
  /\ Len(messages) >= 1
  /\ messages[Len(messages)].sender = "system"
  /\ messages[Len(messages)].conversation_id = 2

(* C22: when the alert step runs broadcast_crisis_alert for a conversation *)
(* whose user_connected is true, crisis_alert is emitted exactly once to   *)
(* each monitor pool that exists then; with no pool nothing is emitted and *)
(* nothing is stored; and no later step emits the crisis_alert of a task   *)
(* whose alert step has run.                                               *)
AlertEmitsTo(mid, m, es) ==
  {i \in 1..Len(es) : es[i].event = "crisis_alert" /\ es[i].message_id = mid
                       /\ es[i].to = MonRoom(m)}

C22_AlertOncePerPool ==
  [][\A mid \in DOMAIN tasks :
       /\ ( /\ tasks[mid].pc = "alert"
            /\ tasks'[mid].pc = "done"
            /\ TaskConv(mid) \in DOMAIN conversations
            /\ UserConnected(TaskConv(mid)) )
          => /\ \A m \in DOMAIN monitor_rooms :
                  Cardinality(AlertEmitsTo(mid, m, out')) = 1
             /\ DOMAIN monitor_rooms = {} => (out' = <<>> /\ UNCHANGED db)
       /\ tasks[mid].pc # "alert" => AlertsFor(mid, Range(out')) = {}]_vars

(* C23: a send_message with sender 'monitor' for a conversation in mode    *)
(* 'monitor' stores the message with flagged = false and no risk level and *)
(* emits new_message once to the conversation room and once to every       *)
(* monitor pool within the handler; it starts no background task and       *)
(* leaves every conversation as it was; and no step ever scores a stored   *)
(* monitor message.                                                        *)
NewMessageEmitsTo(mid, to, es) ==
  {i \in 1..Len(es) : es[i].event = "new_message" /\ es[i].message_id = mid
                       /\ es[i].to = to}

C23_MonitorMessageNotScored ==
  [][/\ \A sid \in Sids, c \in RegistryConvIds, text \in {TextVouMeMatar} :
          (ControlledByMonitor(c) /\ send_message(sid, c, text, "monitor", TRUE))
          => /\ messages' = Append(messages, Message("monitor", text, c))
             /\ ~messages'[Len(messages')].flagged
             /\ messages'[Len(messages')].risk_level = NoRisk
             /\ Cardinality(NewMessageEmitsTo(Len(messages'), ConvRoom(c), out')) = 1
             /\ \A m \in DOMAIN monitor_rooms :
                  Cardinality(NewMessageEmitsTo(Len(messages'), MonRoom(m), out')) = 1
             /\ UNCHANGED <<conversations, tasks>>
     /\ \A k \in 1..Len(messages') :
          messages'[k].sender = "monitor"
          => /\ ~messages'[k].flagged
             /\ messages'[k].risk_level = NoRisk
             /\ k \notin DOMAIN tasks']_vars

(* A monitor message that holds a critical pattern has been stored and     *)
(* sent to the conversation room and to two monitor pools; it is not       *)
(* flagged, no task exists for it and the conversation stays ACTIVE.       *)
C23_Witness ==
  \E k \in 1..Len(messages) :
    /\ messages[k] = Message("monitor", TextVouMeMatar, 1)
    /\ k \notin DOMAIN tasks
    /\ conversations[1].mode = "monitor"
    /\ conversations[1].status = "active"
    /\ Emit("new_message", ConvRoom(1), 1, k, "monitor") \in emitted
    /\ Emit("new_message", MonRoom("ana"), 1, k, "monitor") \in emitted
    /\ Emit("new_message", MonRoom("bia"), 1, k, "monitor") \in emitted

(* C24: get_flagged_messages(limit) returns only messages with flagged =   *)
(* true and notified = false, each once, at most limit of them, and        *)
(* exactly limit when more than limit such messages are stored.            *)
C24_FlaggedUnnotifiedUpToLimit ==
  \A limit \in Limits :
    LET rows == get_flagged_messages(limit)
        stored == Cardinality({k \in 1..Len(messages) :
                                 messages[k].flagged = TRUE /\ messages[k].notified = FALSE})
    IN /\ \A i \in 1..Len(rows) :
            /\ rows[i] \in 1..Len(messages)
            /\ messages[rows[i]].flagged = TRUE
            /\ messages[rows[i]].notified = FALSE
            /\ \A j \in 1..Len(rows) : rows[j] = rows[i] => j = i
       /\ Len(rows) <= limit
       /\ stored > limit => Len(rows) = limit

(* Two flagged messages wait for a monitor and a third one, CRITICAL, is   *)
(* already notified: limit 1 returns the newer of the two.                 *)
C24_Witness ==
  \E a, b, c \in 1..Len(messages) :
    /\ a < b
    /\ messages[a].flagged /\ ~messages[a].notified
    /\ messages[b].flagged /\ ~messages[b].notified
    /\ messages[c].flagged /\ messages[c].notified
    /\ get_flagged_messages(1) = <<b>>
    /\ Len(get_flagged_messages(MaxLimit)) = 2

(* C25: join_conversation without conversation_id, join_monitor without    *)
(* monitor_id and send_message without conversation_id or without message  *)
(* emit one error event, to the connection the event came from, and change *)
(* neither the routing maps nor the conversations, the messages, the tasks *)
(* or what the rooms were sent.                                            *)
ErrorOnlyTo(sid) ==
  /\ Len(out') = 1
  /\ out'[1].event = "error"
  /\ out'[1].to = ToSid(sid)
  /\ UNCHANGED <<conversation_rooms, monitor_rooms, user_sessions, sio_rooms,
                 conversations, messages, tasks, emitted>>

C25_MissingFieldIsErrorOnly ==
  [][\A sid \in Sids :
       /\ \A u \in UserTypes : join_conversation(sid, NoConv, u) => ErrorOnlyTo(sid)
       /\ \A tok \in Tokens : join_monitor(sid, NoMonitor, tok) => ErrorOnlyTo(sid)
       /\ \A c \in ConvIds \cup {NoConv}, text \in {TextOla, NoText}, sender \in Senders :
            ((c = NoConv \/ text = NoText) /\ send_message(sid, c, text, sender, TRUE))
            => ErrorOnlyTo(sid)]_vars

(* A connection that has joined the existing conversation 1 has just been  *)
(* refused a send_message that lacks a field.                              *)
C25_Witness ==
  \E sid \in Sids :
    /\ out = Error(sid, "conversation_id and message required")
    /\ 1 \in DOMAIN conversations
    /\ Joined(sid, 1)
    /\ messages = <<>>

(* C26: for the empty text analyze_message returns NONE or LOW, the        *)
(* confidence 0.0 and no keyword, whatever the generation backend would    *)
(* answer.                                                                 *)
C26_EmptyMessage ==
  (detection.pc = "analyzed" /\ detection.text = [kws |-> {}, pats |-> {}])
  => /\ detection.final.risk_level \in {"none", "low"}
     /\ detection.final.confidence = 0
     /\ detection.final.keywords_found = {}

(* The empty text has been analyzed while the backend would have answered  *)
(* CRITICAL:0.9.                                                           *)
C26_Witness ==
  /\ detection.pc = "analyzed"
  /\ detection.text = [kws |-> {}, pats |-> {}]
  /\ detection.answer = "CRITICAL:0.9"
  /\ detection.final.risk_level = "none"
  /\ detection.final.confidence = 0

(* A step of the WebSocket pipeline of task mid, or of the REST request    *)
(* rid.                                                                    *)
PipelineStep(mid) ==
  \/ analyze_and_respond(mid)
  \/ ollama_reply(mid)
  \/ ollama_failure(mid)
  \/ publish(mid)
  \/ \E build \in SioBuilds : alert(mid, build)

AskStep(rid) ==
  \/ ask_with_crisis_detection_reply(rid)
  \/ ask_with_crisis_detection_raises(rid)
  \/ \E build \in SioBuilds : _notify_monitors_of_crisis(rid, build)

Statuses == [c \in DOMAIN conversations |-> conversations[c].status]

(* C27: the scoring pipeline changes a conversation's status only when the *)
(* aggregated risk is CRITICAL: scoring a CRITICAL user message of an      *)
(* existing conversation leaves that conversation ESCALATED, and every     *)
(* step of the pipeline of a message scored NONE, LOW, MEDIUM or HIGH      *)
(* leaves the status of every conversation as it was; this holds of the    *)
(* WebSocket pipeline and of the REST endpoint.                            *)
C27_StatusOnlyOnCritical ==
  [][/\ \A mid \in DOMAIN tasks :
          PipelineStep(mid) =>
            IF analyze_message(messages[mid].text).risk_level = "critical"
               /\ tasks[mid].pc = "scheduled"
               /\ tasks[mid].conversation_id \in DOMAIN conversations
              THEN /\ conversations'[tasks[mid].conversation_id].status = "escalated"
                   /\ \A c \in DOMAIN conversations \ {tasks[mid].conversation_id} :
                        conversations'[c].status = conversations[c].status
              ELSE Statuses' = Statuses
     /\ \A rid \in DOMAIN asks : AskStep(rid) => Statuses' = Statuses
     /\ \A c \in ConvIds \cup {UnknownConv}, text \in Texts :
          ask_with_crisis_detection(c, text) =>
            IF analyze_message(text).risk_level = "critical" /\ c \in DOMAIN conversations
              THEN /\ conversations'[c].status = "escalated"
                   /\ \A d \in DOMAIN conversations \ {c} :
                        conversations'[d].status = conversations[d].status
              ELSE Statuses' = Statuses]_vars

(* Both pipelines have escalated on a CRITICAL message and have scored a   *)
(* HIGH message of an active conversation.                                 *)
C27_Witness ==
  /\ \E mid \in DOMAIN tasks :
       /\ tasks[mid].risk_level = "high"
       /\ tasks[mid].pc = "done"
       /\ messages[mid].flagged
  /\ \E rid \in DOMAIN asks :
       /\ asks[rid].risk_level = "critical"
       /\ asks[rid].pc = "done"
  /\ \E c \in DOMAIN conversations : conversations[c].status = "escalated"

(* C28: a pipeline started for a user message of an existing conversation  *)
(* is not cancelled by a disconnect: when its task has ended, the analysis *)
(* (flagged, risk_level, escalation_level) is written to the stored        *)
(* message, whether or not the user's connection is still there.           *)
C28_AnalysisWritten ==
  \A mid \in DOMAIN tasks :
    tasks[mid].pc = "done" /\ tasks[mid].conversation_id \in DOMAIN conversations
      => LET analysis == analyze_message(messages[mid].text)
         IN /\ messages[mid].risk_level = analysis.risk_level
            /\ messages[mid].escalation_level = analysis.risk_level
            /\ messages[mid].flagged = analysis.requires_human

(* C29: when the call of the judge fails, the judge sub-analysis is NONE   *)
(* with confidence 0.0 and the error text, and analyze_message still       *)
(* returns an analysis built from the keyword and the pattern results: the *)
(* higher of their two levels, the keywords found, and the confidence of   *)
(* their two confidences and 0.0.                                          *)
C29_JudgeFailureIsNone ==
  detection.pc = "analyzed" =>
    LET kw == _analyze_keywords(detection.text)
        pat == _analyze_patterns(detection.text)
        level == MaxLevel({kw.risk_level, pat.risk_level})
        sum == kw.confidence + pat.confidence
        agreeing == Cardinality({i \in 1..3 :
                      <<kw.risk_level, pat.risk_level, "none">>[i] = level})
    IN /\ detection.ai_analysis.risk_level = "none"
       /\ detection.ai_analysis.confidence = 0
       /\ detection.ai_analysis.ai_response = "Erro"
       /\ detection.final.risk_level = level
       /\ detection.final.keywords_found = kw.keywords_found
       /\ detection.final.confidence
            = IF agreeing >= 2 THEN Min(13 * sum, 30000) ELSE 10 * sum
       /\ detection.final.analysis_details.ai_analysis = detection.ai_analysis

(* The call has failed on a text whose keywords are HIGH, and the analysis *)
(* returned is HIGH.                                                       *)
C29_Witness ==
  /\ detection.pc = "analyzed"
  /\ detection.ai_analysis.ai_response = "Erro"
  /\ _analyze_keywords(detection.text).risk_level = "high"
  /\ detection.text.pats = {}
  /\ detection.final.risk_level = "high"
  /\ detection.final.requires_human

(* The answers LEVEL:NUMBER with one ':' and what the claim has them read  *)
(* as: the level of the left side, the number of the right side clamped,   *)
(* NONE with 0.3 when a side is not recognized.                            *)
ColonAnswers == {a \in AiAnalyses : a.ai_response \notin {"Erro", "ok"}}

(* C30: when the answer of the judge contains a ':', the judge result is   *)
(* the level named left of the first ':' with the number right of it       *)
(* clamped to [0,1], and NONE with 0.3 when the level is not recognized or *)
(* the right side is not a number.                                         *)
C30_AnswerIsParsed ==
  detection.pc = "analyzed" =>
    \A a \in ColonAnswers :
      detection.answer = a.ai_response
        => /\ detection.ai_analysis.risk_level = a.risk_level
           /\ detection.ai_analysis.confidence = a.confidence

(* What the claim has the judge return for an answer without ':', from the *)
(* message text alone. Of the keywords a text can hold, "vou me matar" and *)
(* "me matar" contain the stem "matar", "vou me matar" the marker "vou me",*)
(* "triste" and "sozinho" are sadness stems.                               *)
FallbackByText(text) ==
  IF text.kws \cap {"vou me matar", "me matar"} # {}
    THEN IF "vou me matar" \in text.kws
           THEN [risk_level |-> "high", confidence |-> 700]
           ELSE [risk_level |-> "medium", confidence |-> 500]
  ELSE IF text.kws \cap {"triste", "sozinho"} # {}
    THEN [risk_level |-> "low", confidence |-> 400]
  ELSE [risk_level |-> "none", confidence |-> 100]

(* C31: when the backend answers without any ':', the judge result is      *)
(* decided by the message text alone: HIGH/0.7, MEDIUM/0.5, LOW/0.4 or     *)
(* NONE/0.1.                                                               *)
C31_FallbackByText ==
  (detection.pc = "analyzed" /\ detection.answer = "ok")
    => /\ detection.ai_analysis.risk_level = FallbackByText(detection.text).risk_level
       /\ detection.ai_analysis.confidence = FallbackByText(detection.text).confidence

(* The lexicon keywords that occur in the text of the detector call.       *)
MatchedKeywords ==
  {k \in UNION {keywords[l] : l \in KeywordLevels} : k \in detection.text.kws}

(* C32: the keyword scorer returns the highest level that has a keyword    *)
(* occurring in the text (NONE when none occurs), every matching keyword   *)
(* of every level in keywords_found, and the confidence                    *)
(* min(0.3 x number of matched keywords, 1.0).                             *)
C32_KeywordScorer ==
  Detected =>
    LET kw == detection.final.analysis_details.keyword_analysis
    IN /\ kw.keywords_found = MatchedKeywords
       /\ kw.confidence = Min(300 * Cardinality(MatchedKeywords), 1000)
       /\ MatchedKeywords = {} => kw.risk_level = "none"
       /\ MatchedKeywords # {} =>
            /\ kw.risk_level \in KeywordLevels
            /\ keywords[kw.risk_level] \cap MatchedKeywords # {}
       /\ \A l \in KeywordLevels :
            keywords[l] \cap MatchedKeywords # {}
              => RiskIndex(l) <= RiskIndex(kw.risk_level)

(* Keywords of three levels occur, four or more in all: the level is the   *)
(* highest of them and the confidence is capped.                           *)
C32_Witness ==
  /\ Detected
  /\ Cardinality(MatchedKeywords) >= 4
  /\ \A l \in {"low", "medium", "high"} : keywords[l] \cap MatchedKeywords # {}
  /\ keywords["critical"] \cap MatchedKeywords = {}
  /\ detection.final.analysis_details.keyword_analysis.risk_level = "high"
  /\ detection.final.analysis_details.keyword_analysis.confidence = 1000

(* C33: the routing maps agree with the session bindings: a connection is  *)
(* a member of conversation_rooms[c] exactly when c is in the conversation *)
(* list of its session, and a member of monitor_rooms[m] exactly when m is *)
(* the monitor_id of its session.                                          *)
C33_RoutingMatchesSessions ==
  \A sid \in Sids :
    /\ \A c \in ConvIds :
         (c \in DOMAIN conversation_rooms /\ sid \in conversation_rooms[c])
         <=> (sid \in DOMAIN user_sessions
              /\ \E i \in 1..Len(user_sessions[sid].conversations) :
                   user_sessions[sid].conversations[i] = c)
    /\ \A m \in MonitorIds :
         (m \in DOMAIN monitor_rooms /\ sid \in monitor_rooms[m])
         <=> (sid \in DOMAIN user_sessions /\ user_sessions[sid].monitor_id = m)

(* C34: no key of conversation_rooms or of monitor_rooms maps to an empty  *)
(* set, so total_monitors of the debug endpoint is the number of monitor   *)
(* identities that have at least one registered connection.                *)
C34_NoEmptyRoom ==
  /\ \A c \in DOMAIN conversation_rooms : conversation_rooms[c] # {}
  /\ \A m \in DOMAIN monitor_rooms : monitor_rooms[m] # {}
  /\ \A m \in DOMAIN monitor_rooms : get_connected_monitors.monitor_details[m] >= 1
  /\ get_connected_monitors.total_monitors
       = Cardinality({m \in MonitorIds :
           \E sid \in Sids : m \in DOMAIN monitor_rooms /\ sid \in monitor_rooms[m]})

(* The connection of one pool is gone and its pool with it, while the pool *)
(* of the other identity remains.                                          *)
C34_Witness ==
  /\ conn[1] = "gone"
  /\ 1 \notin DOMAIN user_sessions
  /\ DOMAIN monitor_rooms = {"bia"}
  /\ monitor_rooms["bia"] = {2}
  /\ conversation_rooms = EmptyDict
  /\ get_connected_monitors.total_monitors = 1

(* C35: a message with sender 'monitor' is persisted and broadcast only    *)
(* when the connection that sent it is a member of some monitor pool.      *)
C35_MonitorMessageNeedsPool ==
  [][\A sid \in Sids, c \in RegistryConvIds :
       (send_message(sid, c, TextVouMeMatar, "monitor", TRUE)
        /\ Len(messages') > Len(messages))
         => \E m \in DOMAIN monitor_rooms : sid \in monitor_rooms[m]]_vars

(* C36: a message is notified only after a crisis_alert for it has been    *)
(* emitted to at least one monitor pool, so that a flagged message without *)
(* a delivered alert is still returned by get_flagged_messages.            *)
C36_NotifiedOnlyAfterAlert ==
  \A mid \in 1..Len(messages) :
    /\ messages[mid].notified
         => \E e \in emitted :
              /\ e.event = "crisis_alert"
              /\ e.to.kind = "monitor"
              /\ e.message_id = mid
    /\ (messages[mid].flagged
         /\ ~\E e \in emitted : e.event = "crisis_alert" /\ e.message_id = mid)
         => \E i \in 1..Len(get_flagged_messages(MaxMsgs)) :
              get_flagged_messages(MaxMsgs)[i] = mid

Recipients(to) ==
  IF to.kind = "conversation" THEN sio_rooms.conv[to.conv]
  ELSE IF to.kind = "monitor" THEN sio_rooms.mon[to.mon]
  ELSE IF to.kind = "sid" THEN {to.sid}
  ELSE {}

(* C38: the new_message of one message is delivered at most once to each   *)
(* connection by the step that emits it, also to a connection that is in   *)
(* the room of the conversation and in a monitor pool.                     *)
C38_NewMessageOncePerConnection ==
  \A sid \in Sids, mid \in 1..Len(messages) :
    Cardinality({i \in 1..Len(out) :
                   /\ out[i].event = "new_message"
                   /\ out[i].message_id = mid
                   /\ sid \in Recipients(out[i].to)}) <= 1

(* The messages a step has added.                                          *)
Added == {messages'[i] : i \in (Len(messages) + 1)..Len(messages')}

(* C39: the REST endpoint creates no automated reply for a conversation    *)
(* that is ESCALATED or in mode 'monitor' when the reply is created, none  *)
(* for the message whose CRITICAL score escalates the conversation, and    *)
(* never the fixed support message.                                        *)
C39_NoReplyWhenEscalatedOrMonitor ==
  [][/\ \A rid \in DOMAIN asks :
          ask_with_crisis_detection_reply(rid) =>
            /\ conversations[asks[rid].conversation_id].status # "escalated"
            /\ conversations[asks[rid].conversation_id].mode # "monitor"
            /\ \A m \in Added : m.text # TextApoioImediato
     /\ \A c \in ConvIds, text \in Texts :
          ask_with_crisis_detection(c, text) =>
            \A m \in Added : m.sender # "ai"]_vars
====
